---- MODULE Spec2Model ----
(***************************************************************************)
(* Model of misc/python/materialize/cli/ci_annotate_errors.py:             *)
(*   - annotate_logged_errors / handle_error / annotate_errors /           *)
(*     group_identical_errors (issue classification and the exit count),   *)
(*   - _collect_service_panics_in_logs (the panic correlator),             *)
(*   - get_errors / _get_errors_from_log_file / _collect_errors_in_logs /  *)
(*     _get_errors_from_junit_file (the scanner and the merge),            *)
(*   - the to_text / to_markdown renderings of the ObservedError classes.  *)
(*   - the program from its files to its exit (SpecRun).                  *)
(* Byte strings are sequences of tokens; a regular expression search is    *)
(* the occurrence of the pattern's token in the searched sequence.         *)
(* An Optional value is a sequence of length 0 (None) or 1 (the value).    *)
(***************************************************************************)
EXTENDS Integers, Sequences, FiniteSets, TLC

VARIABLES
    \* ---- annotate_logged_errors ----
    errors,                    \* result of get_errors(log_files)
    known_issues,              \* registry returned by get_known_issues_from_github
    issues_with_invalid_regex, \* second component of that result
    step_key,                  \* BUILDKITE_STEP_KEY
    buildkite_label,           \* BUILDKITE_LABEL
    env,                       \* the other environment values the run reads
    pc,                        \* position in annotate_logged_errors
    idx,                       \* index of the next error of `for error in errors`
    known_errors,
    unknown_errors,
    already_reported_issue_numbers,
    annotations,               \* calls of add_annotation_raw, in order
    ret,                       \* return value of annotate_logged_errors
    outcomes,                  \* history: per classified error, what the loop body did
    \* ---- _collect_service_panics_in_logs ----
    data,                      \* the lines of the mapped file
    pos,                       \* number of lines consumed by data.readline
    open_panics,
    collected_panics,
    scan_pc,                   \* "idle", "scan", "returned", "raised"
    diagnostic,                \* Optional message of the AssertionError
    panic_log,                 \* history: per consumed line, what the loop body did
    \* ---- group_identical_errors, as annotate_errors calls it ----
    group_args,                \* the two argument lists (their elements are mutated)
    group_passed,              \* history: the two lists as they were passed
    group_result,              \* Optional pair of the two returned lists
    \* ---- get_errors ----
    log_file_names,            \* the argument of get_errors
    file_system,               \* content of each named file
    coverage_enabled,          \* ui.env_is_truthy("CI_COVERAGE_ENABLED")
    file_idx,                  \* index of the next name of `for log_file_name in ...`
    error_logs,                \* error_logs of get_errors
    collected_errors,          \* error_logs of _get_errors_from_log_file
    match_log,                 \* history: per scanner record of the file, its line
    error_origins,             \* history: per record of error_logs, where it is from
    get_pc,                    \* "idle", "files", "panics", "returned", "raised"
    \* ---- rendering ----
    render_error,              \* the ObservedError that is rendered
    rendered                   \* Optional record of its to_text and to_markdown

vars == <<errors, known_issues, issues_with_invalid_regex, step_key,
          buildkite_label, env, pc, idx, known_errors, unknown_errors,
          already_reported_issue_numbers, annotations, ret, outcomes,
          data, pos, open_panics, collected_panics, scan_pc, diagnostic,
          panic_log, group_args, group_passed, group_result,
          log_file_names, file_system, coverage_enabled, file_idx,
          error_logs, collected_errors, match_log, error_origins, get_pc,
          render_error, rendered>>

run_vars == <<errors, known_issues, issues_with_invalid_regex, step_key,
              buildkite_label, env, pc, idx, known_errors, unknown_errors,
              already_reported_issue_numbers, annotations, ret, outcomes>>

panic_vars == <<data, pos, open_panics, collected_panics, scan_pc,
                diagnostic, panic_log>>

group_vars == <<group_args, group_passed, group_result>>

files_vars == <<log_file_names, file_system, coverage_enabled, file_idx,
                error_logs, collected_errors, match_log, error_origins,
                get_pc>>

render_vars == <<render_error, rendered>>

----------------------------------------------------------------------------
(* Bounds *)

MaxRegistry == 2     \* longest issue registry
MaxErrors == 2       \* longest error list handed to the classifier
MaxInvalid == 1      \* most issues with an invalid pattern
MaxLines == 4        \* longest log file, in lines
MaxGroup == 3        \* longest list handed to group_identical_errors
MaxFiles == 2        \* longest list of file names handed to get_errors
MaxFileLines == 3    \* most lines in the log files of one run, together
MaxText == 3         \* longest message or details of a rendered record
MaxLimit == 2        \* largest length limit of a rendered record

----------------------------------------------------------------------------
(* Generic helpers *)

SeqsUpTo(S, n) == UNION {[1..k -> S] : k \in 0..n}

Contains(text, token) == \E i \in DOMAIN text : text[i] = token

\* The empty dict, dict[k] = v and del dict[k]
EmptyDict == [s \in {} |-> <<>>]

\* str.lower() on the identifiers used for build-step keys and labels
Lower(s) ==
    CASE s = "K" -> "k"
      [] s = "L" -> "l"
      [] OTHER -> s

----------------------------------------------------------------------------
(* Inputs of annotate_logged_errors *)

NoneValue == <<>>
Some(x) == <<x>>

\* Error texts.  M1 and M2 share the fatal signature and differ in the
\* address; M2 also carries a reference to the current build.
RunNoise == "build-7"
M1 == <<"segfault at", "0x1">>
M2 == <<"segfault at", RunNoise, "0x2">>

ErrorLog(match, file) == [cls |-> "ErrorLog", match |-> match, file |-> file]

JunitError(testclass, testcase, message, text) ==
    [cls |-> "JunitError", testclass |-> testclass, testcase |-> testcase,
     message |-> message, text |-> text]

\* services.log is an uploaded artifact of the job, journal.log is not.
LogErrors == {ErrorLog(M1, "services.log"), ErrorLog(M2, "journal.log")}

\* The second and the third are failures of a coverage run: the marker is in
\* the text of one and in the message of the other.
JunitErrors ==
    {JunitError("suite", "case", <<"segfault at">>, <<"0x1">>),
     JunitError("suite", "case", <<"segfault at">>,
                <<"0x1", "in Code Coverage">>),
     JunitError("suite", "case", <<"0x1", "covered">>, <<>>)}

\* A KnownIssue has a regex, an apply_to and the issue's info
Patterns == {"segfault at", "0x1"}
States == {"open", "closed"}
Scopes == {NoneValue, Some("k"), Some("x")}

\* Registries of at most n entries over the given patterns and scopes.  An
\* issue may own several entries; its state is the same in all of them.
\* Issue numbers are only compared for equality, so they are taken in order
\* of first use.
Registries(patterns, scopes, n) ==
    {r \in SeqsUpTo([regex : patterns, apply_to : scopes,
                     info : [number : 1..n, state : States,
                             title : {"issue"}, html_url : {"url"}]], n) :
        /\ \A i, j \in DOMAIN r :
              r[i].info.number = r[j].info.number
                  => r[i].info.state = r[j].info.state
        /\ \A i \in DOMAIN r :
              \/ r[i].info.number = 1
              \/ \E j \in 1..(i-1) : r[j].info.number = r[i].info.number - 1}

\* ObservedErrorWithIssue records returned for issues whose pattern does not
\* compile; they reference an issue that is not part of known_issues.
InvalidRegexRecord ==
    [cls |-> "ObservedErrorWithIssue", error_type |-> "Unknown error",
     internal_error_type |-> "GITHUB_ISSUE_INVALID_REGEX",
     error_message |-> <<"invalid regex">>, error_details |-> NoneValue,
     location |-> "issue", location_url |-> NoneValue,
     issue_number |-> 0, issue_is_closed |-> FALSE, occurrences |-> 1]

\* The scope restrictions with the same restriction in both letter cases
ScopesAnyCase == {NoneValue, Some("k"), Some("K"), Some("x")}

Contexts == {<<"K", "L">>, <<"L", "K">>}

Envs == [BUILDKITE_COMMAND_EXIT_STATUS : {"0", "1"},
         BUILDKITE : {"1"},
         BUILDKITE_BRANCH : {"main", "pr"},
         BUILDKITE_JOB_ID : {"job"}]

\* ci_util.get_artifacts()
Artifacts == {[job_id |-> "job", path |-> "services.log"],
              [job_id |-> "other", path |-> "journal.log"]}

JobStates == {"running", "canceled"}

----------------------------------------------------------------------------
(* Issue classification: annotate_logged_errors.handle_error *)

\* for_github_re: drops the run-specific part of the text before the search
ForGithubRe(text) == SelectSeq(text, LAMBDA t : t # RunNoise)

\* issue.regex.search(text)
RegexSearch(regex, text) == Contains(text, regex)

\* not (issue.apply_to and issue.apply_to not in (step_key.lower(),
\*                                               buildkite_label.lower()))
ScopeApplies(issue) ==
    \/ issue.apply_to = NoneValue
    \/ issue.apply_to[1] \in {Lower(step_key), Lower(buildkite_label)}

SearchString(error_message, error_details) ==
    IF error_details = NoneValue
    THEN error_message
    ELSE error_message \o <<"\n">> \o error_details[1]

\* One `for issue in known_issues` loop of handle_error, from entry i on, for
\* the given state: the index of the entry at which the loop breaks, or 0
\* when the loop runs to its end (the for-else case).
\* Faulty variant: an entry passed over for its scope ends the loop
RECURSIVE ScanIssuesStopAtScope(_, _, _)
ScanIssuesStopAtScope(i, state, search_string) ==
    IF i > Len(known_issues) THEN 0
    ELSE IF /\ RegexSearch(known_issues[i].regex, ForGithubRe(search_string))
            /\ known_issues[i].info.state = state
         THEN IF ~ScopeApplies(known_issues[i]) THEN 0 ELSE i
         ELSE ScanIssuesStopAtScope(i + 1, state, search_string)

RECURSIVE ScanIssues(_, _, _)
ScanIssues(i, state, search_string) ==
    IF i > Len(known_issues) THEN 0
    ELSE IF /\ RegexSearch(known_issues[i].regex, ForGithubRe(search_string))
            /\ known_issues[i].info.state = state
         THEN IF ~ScopeApplies(known_issues[i])
              THEN ScanIssues(i + 1, state, search_string)   \* continue
              ELSE i                                         \* break
         ELSE ScanIssues(i + 1, state, search_string)

ObservedErrorWithIssue(error_message, error_details, error_type, internal_error_type, issue, issue_is_closed, location, location_url) ==
    [cls |-> "ObservedErrorWithIssue", error_type |-> error_type,
     internal_error_type |-> internal_error_type,
     error_message |-> error_message, error_details |-> error_details,
     location |-> location, location_url |-> location_url,
     issue_number |-> issue.info.number,
     issue_is_closed |-> issue_is_closed, occurrences |-> 1]

ObservedErrorWithLocation(error_message, error_details, location, location_url) ==
    [cls |-> "ObservedErrorWithLocation", error_type |-> "Unknown error",
     internal_error_type |-> "UNKNOWN ERROR",
     error_message |-> error_message, error_details |-> error_details,
     location |-> location, location_url |-> location_url, occurrences |-> 1]

FailureInCoverageRun(error_message, location) ==
    [cls |-> "FailureInCoverageRun", error_type |-> "Failure",
     internal_error_type |-> "FAILURE_IN_COVERAGE_MODE",
     error_message |-> error_message, error_details |-> NoneValue,
     location |-> location, location_url |-> NoneValue, occurrences |-> 1]

\* The effect of one call of handle_error on the three collections of the
\* enclosing function, and the branch of the for/else cascade it took.
\* Faulty variant: the closed entries are scanned before the open ones
handle_error_ClosedFirst(error_message, error_details, location, location_url) ==
    LET search_string == SearchString(error_message, error_details)
        o == ScanIssues(1, "open", search_string)
        c == ScanIssues(1, "closed", search_string)
        same == [branch |-> "none", issue |-> 0,
                 known_errors |-> known_errors,
                 unknown_errors |-> unknown_errors,
                 already_reported_issue_numbers |->
                     already_reported_issue_numbers]
    IN  IF c # 0
        THEN [same EXCEPT
                !.branch = "closed", !.issue = c,
                !.unknown_errors = Append(unknown_errors,
                    ObservedErrorWithIssue(error_message, error_details,
                        "Potential regression", "POTENTIAL_REGRESSION",
                        known_issues[c], TRUE, location, location_url))]
        ELSE IF o # 0
        THEN [same EXCEPT
                !.branch = "open", !.issue = o,
                !.known_errors = Append(known_errors,
                    ObservedErrorWithIssue(error_message, error_details,
                        "Known issue", "KNOWN_ISSUE",
                        known_issues[o], FALSE, location, location_url))]
        ELSE [same EXCEPT
                !.unknown_errors = Append(unknown_errors,
                    ObservedErrorWithLocation(error_message, error_details,
                                              location, location_url))]

\* Faulty variant: a record is appended for every match, reported or not
handle_error_NoDedup(error_message, error_details, location, location_url) ==
    LET search_string == SearchString(error_message, error_details)
        o == ScanIssues(1, "open", search_string)
        c == ScanIssues(1, "closed", search_string)
        same == [branch |-> "none", issue |-> 0,
                 known_errors |-> known_errors,
                 unknown_errors |-> unknown_errors,
                 already_reported_issue_numbers |->
                     already_reported_issue_numbers]
    IN  IF o # 0
        THEN [same EXCEPT
                !.branch = "open", !.issue = o,
                !.known_errors = Append(known_errors,
                    ObservedErrorWithIssue(error_message, error_details,
                        "Known issue", "KNOWN_ISSUE",
                        known_issues[o], FALSE, location, location_url)),
                !.already_reported_issue_numbers =
                    @ \cup {known_issues[o].info.number}]
        ELSE IF c # 0
        THEN [same EXCEPT
                !.branch = "closed", !.issue = c,
                !.unknown_errors = Append(unknown_errors,
                    ObservedErrorWithIssue(error_message, error_details,
                        "Potential regression", "POTENTIAL_REGRESSION",
                        known_issues[c], TRUE, location, location_url)),
                !.already_reported_issue_numbers =
                    @ \cup {known_issues[c].info.number}]
        ELSE [same EXCEPT
                !.unknown_errors = Append(unknown_errors,
                    ObservedErrorWithLocation(error_message, error_details,
                                              location, location_url))]

handle_error(error_message, error_details, location, location_url) ==
    LET search_string == SearchString(error_message, error_details)
        o == ScanIssues(1, "open", search_string)
        c == ScanIssues(1, "closed", search_string)
        same == [branch |-> "none", issue |-> 0,
                 known_errors |-> known_errors,
                 unknown_errors |-> unknown_errors,
                 already_reported_issue_numbers |->
                     already_reported_issue_numbers]
    IN  IF o # 0
        THEN \* first loop ended in break
             IF known_issues[o].info.number
                    \notin already_reported_issue_numbers
             THEN [same EXCEPT
                     !.branch = "open", !.issue = o,
                     !.known_errors = Append(known_errors,
                         ObservedErrorWithIssue(error_message, error_details,
                             "Known issue", "KNOWN_ISSUE",
                             known_issues[o], FALSE, location, location_url)),
                     !.already_reported_issue_numbers =
                         @ \cup {known_issues[o].info.number}]
             ELSE [same EXCEPT !.branch = "open", !.issue = o]
        ELSE IF c # 0
        THEN \* second loop ended in break
             IF known_issues[c].info.number
                    \notin already_reported_issue_numbers
             THEN [same EXCEPT
                     !.branch = "closed", !.issue = c,
                     !.unknown_errors = Append(unknown_errors,
                         ObservedErrorWithIssue(error_message, error_details,
                             "Potential regression", "POTENTIAL_REGRESSION",
                             known_issues[c], TRUE, location, location_url)),
                     !.already_reported_issue_numbers =
                         @ \cup {known_issues[c].info.number}]
             ELSE [same EXCEPT !.branch = "closed", !.issue = c]
        ELSE \* both loops ran to their end
             [same EXCEPT
                !.unknown_errors = Append(unknown_errors,
                    ObservedErrorWithLocation(error_message, error_details,
                                              location, location_url))]

----------------------------------------------------------------------------
(* group_identical_errors and annotate_errors *)

\* The indices of errs at which a record occurs for the first time, in order
FirstOccurrences(errs) ==
    SelectSeq([i \in 1..Len(errs) |-> i],
              LAMBDA i : \A j \in 1..(i-1) : errs[j] # errs[i])

OccurrencesOf(errs, i) ==
    Cardinality({j \in DOMAIN errs : errs[j] = errs[i]})

\* Faulty variant: a repeated record moves to the place of its last occurrence
group_identical_errors_LastSeen(errs) ==
    LET lasts == SelectSeq([i \in 1..Len(errs) |-> i],
                     LAMBDA i : \A j \in (i+1)..Len(errs) : errs[j] # errs[i])
    IN  [k \in 1..Len(lasts) |->
            [errs[lasts[k]] EXCEPT
                !.occurrences = OccurrencesOf(errs, lasts[k])]]

\* The list group_identical_errors returns: the dict's keys in insertion
\* order, each with its count
group_identical_errors(errs) ==
    LET firsts == FirstOccurrences(errs) IN
    [k \in 1..Len(firsts) |->
        [errs[firsts[k]] EXCEPT !.occurrences = OccurrencesOf(errs, firsts[k])]]

\* The argument list after the call: the key objects are elements of the
\* list and their occurrences attribute was assigned in place
AfterGrouping(errs) ==
    [i \in 1..Len(errs) |->
        IF \A j \in 1..(i-1) : errs[j] # errs[i]
        THEN [errs[i] EXCEPT !.occurrences = OccurrencesOf(errs, i)]
        ELSE errs[i]]

has_successful_buildkite_status == env.BUILDKITE_COMMAND_EXIT_STATUS = "0"

\* Faulty variant: only the exit status of the process counts
IsFailure_StatusOnly(grouped_unknown) == ~has_successful_buildkite_status

\* is_failure = len(unknown_errors) > 0 or not
\* has_successful_buildkite_status(), on the grouped list
IsFailure(grouped_unknown) ==
    \/ Len(grouped_unknown) > 0
    \/ ~has_successful_buildkite_status

----------------------------------------------------------------------------
(* annotate_logged_errors *)

\* "\n".join(filter(None, [message, text]))
JoinNonEmpty(message, text) ==
    IF message = <<>> THEN text
    ELSE IF text = <<>> THEN message
    ELSE message \o <<"\n">> \o text

\* The artifact lookup of the loop body: the URL of the job's artifact with
\* the file's path, or None
LocationUrl(file) ==
    IF \E a \in Artifacts : a.job_id = env.BUILDKITE_JOB_ID /\ a.path = file
    THEN Some("artifact-url")
    ELSE NoneValue

\* unknown_errors = []; unknown_errors.extend(issues_with_invalid_regex)
InitialUnknownErrors == issues_with_invalid_regex

\* Faulty variant: the run goes on when no error was found
GetErrors_NoEarlyReturn ==
    /\ pc = "start"
    /\ pc' = "loop"
    /\ unknown_errors' = InitialUnknownErrors
    /\ UNCHANGED <<errors, known_issues, issues_with_invalid_regex, step_key,
                   buildkite_label, env, idx, known_errors,
                   already_reported_issue_numbers, annotations, ret,
                   outcomes>>
    /\ UNCHANGED <<panic_vars, group_vars, files_vars, render_vars>>

\* errors = get_errors(log_files); if not errors: return 0; otherwise fetch
\* the registry and seed unknown_errors with the invalid-pattern records
GetErrors ==
    /\ pc = "start"
    /\ IF errors = <<>>
       THEN /\ pc' = "returned"
            /\ ret' = Some(0)
            /\ UNCHANGED unknown_errors
       ELSE /\ pc' = "loop"
            /\ unknown_errors' = InitialUnknownErrors
            /\ UNCHANGED ret
    /\ UNCHANGED <<errors, known_issues, issues_with_invalid_regex, step_key,
                   buildkite_label, env, idx, known_errors,
                   already_reported_issue_numbers, annotations, outcomes>>
    /\ UNCHANGED <<panic_vars, group_vars, files_vars, render_vars>>

\* Faulty variant: the message is not looked at
IsCoverageReport_TextOnly(error) == Contains(error.text, "in Code Coverage")

\* "in Code Coverage" in error.text or "covered" in error.message
IsCoverageReport(error) ==
    \/ Contains(error.text, "in Code Coverage")
    \/ Contains(error.message, "covered")

\* One iteration of `for error in errors`
HandleNext ==
    /\ pc = "loop"
    /\ idx <= Len(errors)
    /\ LET error == errors[idx]
           coverage ==
               /\ error.cls = "JunitError"
               /\ IsCoverageReport(error)
           r == IF error.cls = "ErrorLog"
                THEN handle_error(error.match, NoneValue, error.file,
                                  LocationUrl(error.file))
                ELSE handle_error(error.message, Some(error.text),
                                  error.testcase, NoneValue)
       IN  IF coverage
           THEN /\ known_errors' = Append(known_errors,
                    FailureInCoverageRun(
                        JoinNonEmpty(error.message, error.text),
                        error.testcase))
                /\ UNCHANGED <<unknown_errors,
                               already_reported_issue_numbers>>
                /\ outcomes' = Append(outcomes,
                       [branch |-> "coverage", issue |-> 0,
                        list |-> "known", at |-> Len(known_errors) + 1])
           ELSE /\ known_errors' = r.known_errors
                /\ unknown_errors' = r.unknown_errors
                /\ already_reported_issue_numbers' =
                       r.already_reported_issue_numbers
                /\ outcomes' = Append(outcomes,
                       [branch |-> r.branch, issue |-> r.issue,
                        list |-> IF Len(r.known_errors) > Len(known_errors)
                                 THEN "known"
                                 ELSE IF Len(r.unknown_errors)
                                            > Len(unknown_errors)
                                 THEN "unknown" ELSE "none",
                        at |-> IF Len(r.known_errors) > Len(known_errors)
                               THEN Len(r.known_errors)
                               ELSE IF Len(r.unknown_errors)
                                          > Len(unknown_errors)
                               THEN Len(r.unknown_errors) ELSE 0])
    /\ idx' = idx + 1
    /\ UNCHANGED <<errors, known_issues, issues_with_invalid_regex, step_key,
                   buildkite_label, env, pc, annotations, ret>>
    /\ UNCHANGED <<panic_vars, group_vars, files_vars, render_vars>>

\* build_history_on_main = get_failures_on_main(); annotate_errors(...).
\* The build history, the rendering and the upload of the annotation are
\* left out: they read and change nothing of the state below.
AnnotateErrors ==
    /\ pc = "loop"
    /\ idx > Len(errors)
    /\ IF Len(unknown_errors) > 0 \/ Len(known_errors) > 0
       THEN /\ annotations' = Append(annotations,
                [style |-> IF unknown_errors = <<>> THEN "info" ELSE "error",
                 is_failure |->
                     IsFailure(group_identical_errors(unknown_errors)),
                 unknown_errors |-> group_identical_errors(unknown_errors),
                 known_errors |-> group_identical_errors(known_errors)])
            /\ unknown_errors' = AfterGrouping(unknown_errors)
            /\ known_errors' = AfterGrouping(known_errors)
            /\ pc' = "annotated"
       ELSE \* the assertion of annotate_errors fails
            /\ pc' = "raised"
            /\ UNCHANGED <<annotations, unknown_errors, known_errors>>
    /\ UNCHANGED <<errors, known_issues, issues_with_invalid_regex, step_key,
                   buildkite_label, env, idx,
                   already_reported_issue_numbers, ret, outcomes>>
    /\ UNCHANGED <<panic_vars, group_vars, files_vars, render_vars>>

\* Faulty variant: the invalid-pattern records are left out of the count
ReturnValue_FoundOnly ==
    Len(unknown_errors) - Len(issues_with_invalid_regex)

\* Faulty variant: the entries listed in the Annotation are counted
ReturnValue_ListedEntries == Len(annotations[1].unknown_errors)

\* return len(unknown_errors)
ReturnValue == Len(unknown_errors)

\* The rest of annotate_logged_errors: the annotation for a failed job with
\* no error in its logs, and the return value
ReturnCount ==
    /\ pc = "annotated"
    /\ \E job_state \in JobStates :
          IF /\ Len(unknown_errors) = 0
             /\ Len(known_errors) = 0
             /\ env.BUILDKITE = "1"
             /\ env.BUILDKITE_BRANCH # "main"
             /\ ~has_successful_buildkite_status
             /\ job_state \notin {"canceling", "canceled"}
          THEN annotations' = Append(annotations,
                   [style |-> "error", is_failure |-> TRUE,
                    unknown_errors |-> <<>>, known_errors |-> <<>>])
          ELSE UNCHANGED annotations
    /\ ret' = Some(ReturnValue)
    /\ pc' = "returned"
    /\ UNCHANGED <<errors, known_issues, issues_with_invalid_regex, step_key,
                   buildkite_label, env, idx, known_errors, unknown_errors,
                   already_reported_issue_numbers, outcomes>>
    /\ UNCHANGED <<panic_vars, group_vars, files_vars, render_vars>>

----------------------------------------------------------------------------
(* Specifications of the classification run *)

GroupIdle ==
    /\ group_args = <<>>
    /\ group_passed = <<>>
    /\ group_result = NoneValue

FilesIdle ==
    /\ log_file_names = <<>>
    /\ file_system = EmptyDict
    /\ coverage_enabled = FALSE
    /\ file_idx = 1
    /\ error_logs = <<>>
    /\ collected_errors = <<>>
    /\ match_log = <<>>
    /\ error_origins = <<>>
    /\ get_pc = "idle"

RenderIdle ==
    /\ render_error = NoneValue
    /\ rendered = NoneValue

PanicIdle ==
    /\ data = <<>>
    /\ pos = 0
    /\ open_panics = EmptyDict
    /\ collected_panics = <<>>
    /\ scan_pc = "idle"
    /\ diagnostic = NoneValue
    /\ panic_log = <<>>

RunStart ==
    /\ pc = "start"
    /\ idx = 1
    /\ known_errors = <<>>
    /\ unknown_errors = <<>>
    /\ already_reported_issue_numbers = {}
    /\ annotations = <<>>
    /\ ret = NoneValue
    /\ outcomes = <<>>

\* Whole runs: any environment, invalid-pattern records, log and junit errors
Init ==
    /\ errors \in SeqsUpTo(LogErrors \cup JunitErrors, MaxErrors)
    /\ known_issues \in Registries({"0x1"}, {NoneValue}, MaxRegistry)
    /\ issues_with_invalid_regex
           \in {[i \in 1..n |-> InvalidRegexRecord] : n \in 0..MaxInvalid}
    /\ step_key = "K"
    /\ buildkite_label = "L"
    /\ env \in Envs
    /\ RunStart
    /\ PanicIdle
    /\ GroupIdle
    /\ FilesIdle
    /\ RenderIdle

\* Classification: scoped registries, both patterns, both run contexts
InitClassify ==
    /\ errors \in SeqsUpTo(LogErrors, MaxErrors)
    /\ known_issues \in Registries(Patterns, Scopes, MaxRegistry)
    /\ issues_with_invalid_regex = <<>>
    /\ \E c \in Contexts : step_key = c[1] /\ buildkite_label = c[2]
    /\ env = [BUILDKITE_COMMAND_EXIT_STATUS |-> "1", BUILDKITE |-> "1",
              BUILDKITE_BRANCH |-> "pr", BUILDKITE_JOB_ID |-> "job"]
    /\ RunStart
    /\ PanicIdle
    /\ GroupIdle
    /\ FilesIdle
    /\ RenderIdle

\* Scoping: one pattern, restrictions in both letter cases
InitScope ==
    /\ errors \in SeqsUpTo({ErrorLog(M1, "services.log")}, MaxErrors)
    /\ known_issues \in Registries({"0x1"}, ScopesAnyCase, MaxRegistry)
    /\ issues_with_invalid_regex = <<>>
    /\ \E c \in Contexts : step_key = c[1] /\ buildkite_label = c[2]
    /\ env = [BUILDKITE_COMMAND_EXIT_STATUS |-> "1", BUILDKITE |-> "1",
              BUILDKITE_BRANCH |-> "pr", BUILDKITE_JOB_ID |-> "job"]
    /\ RunStart
    /\ PanicIdle
    /\ GroupIdle
    /\ FilesIdle
    /\ RenderIdle

Next ==
    \/ GetErrors
    \/ HandleNext
    \/ AnnotateErrors
    \/ ReturnCount

Spec == Init /\ [][Next]_vars

SpecClassify == InitClassify /\ [][Next]_vars

SpecScope == InitScope /\ [][Next]_vars

----------------------------------------------------------------------------
(* The panic correlator: _collect_service_panics_in_logs *)

\* A labeled line is <<service, "|">> followed by its message; the message
\* of a panic-start line begins with PanickedAt.
PanickedAt == "thread 'x' panicked at "
Ignored == "forced panic"
Services == {"svcA", "svcB"}

Lines ==
    {<<s, "|", PanickedAt>> : s \in Services}
        \cup {<<s, "|", PanickedAt, Ignored>> : s \in Services}
        \cup {<<s, "|", "out of memory">> : s \in Services}
        \cup {<<s, "|", Ignored>> : s \in Services}
        \cup {<<"plain text">>}

\* PANIC_IN_SERVICE_START_RE.match(line) and its group "service"
PANIC_IN_SERVICE_START_RE(line) ==
    Len(line) >= 3 /\ line[2] = "|" /\ line[3] = PanickedAt

\* SERVICES_LOG_LINE_RE.match(line), its groups "service" and "msg"
SERVICES_LOG_LINE_RE(line) == Len(line) >= 2 /\ line[2] = "|"

ServiceOf(line) == line[1]

MsgOf(line) == SubSeq(line, 3, Len(line))

\* IGNORE_RE.search(text)
IGNORE_RE(text) == Contains(text, Ignored)

DictSet(d, k, v) == [s \in DOMAIN d \cup {k} |-> IF s = k THEN v ELSE d[s]]

DictDel(d, k) == [s \in DOMAIN d \ {k} |-> d[s]]

\* The parameter log_file_name of the call in progress
log_file_name ==
    IF get_pc = "panics" THEN log_file_names[file_idx] ELSE "services.log"

\* Faulty variant: a second start line of a pending service replaces the entry
ScanLine_Overwrite(line) ==
    LET same == [open_panics |-> open_panics,
                 collected_panics |-> collected_panics,
                 raised |-> NoneValue]
    IN  IF PANIC_IN_SERVICE_START_RE(line)
        THEN [same EXCEPT
                !.open_panics = DictSet(open_panics, ServiceOf(line), line)]
        ELSE IF open_panics # EmptyDict /\ SERVICES_LOG_LINE_RE(line)
                /\ ServiceOf(line) \in DOMAIN open_panics
        THEN IF IGNORE_RE(line)
             THEN [same EXCEPT
                     !.open_panics = DictDel(open_panics, ServiceOf(line))]
             ELSE [same EXCEPT
                     !.open_panics = DictDel(open_panics, ServiceOf(line)),
                     !.collected_panics = Append(collected_panics,
                         ErrorLog(open_panics[ServiceOf(line)] \o <<" ">>
                                      \o MsgOf(line), log_file_name))]
        ELSE same

\* Faulty variant: the pending entry survives the record it produced
ScanLine_KeepPending(line) ==
    LET same == [open_panics |-> open_panics,
                 collected_panics |-> collected_panics,
                 raised |-> NoneValue]
    IN  IF PANIC_IN_SERVICE_START_RE(line)
        THEN IF ServiceOf(line) \in DOMAIN open_panics
             THEN [same EXCEPT
                     !.raised = Some([text |-> "Two panics of same service",
                                      service |-> ServiceOf(line),
                                      line |-> line])]
             ELSE [same EXCEPT
                     !.open_panics =
                         DictSet(open_panics, ServiceOf(line), line)]
        ELSE IF open_panics # EmptyDict /\ SERVICES_LOG_LINE_RE(line)
                /\ ServiceOf(line) \in DOMAIN open_panics
        THEN IF IGNORE_RE(line)
             THEN [same EXCEPT
                     !.open_panics = DictDel(open_panics, ServiceOf(line))]
             ELSE [same EXCEPT
                     !.collected_panics = Append(collected_panics,
                         ErrorLog(open_panics[ServiceOf(line)] \o <<" ">>
                                      \o MsgOf(line), log_file_name))]
        ELSE same

\* The body of the loop over the lines, for one line: the dict and the list
\* after it, and the AssertionError it raises, if any.
ScanLine(line) ==
    LET same == [open_panics |-> open_panics,
                 collected_panics |-> collected_panics,
                 raised |-> NoneValue]
    IN  IF PANIC_IN_SERVICE_START_RE(line)
        THEN IF ServiceOf(line) \in DOMAIN open_panics
             THEN \* assert service not in open_panics
                  [same EXCEPT
                     !.raised = Some([text |-> "Two panics of same service",
                                      service |-> ServiceOf(line),
                                      line |-> line])]
             ELSE [same EXCEPT
                     !.open_panics =
                         DictSet(open_panics, ServiceOf(line), line)]
        ELSE IF open_panics # EmptyDict /\ SERVICES_LOG_LINE_RE(line)
                /\ ServiceOf(line) \in DOMAIN open_panics
        THEN \* panic_start := open_panics.get(service); del; ignore check
             \* on match.group(0), the line just read
             IF IGNORE_RE(line)
             THEN [same EXCEPT
                     !.open_panics = DictDel(open_panics, ServiceOf(line))]
             ELSE [same EXCEPT
                     !.open_panics = DictDel(open_panics, ServiceOf(line)),
                     !.collected_panics = Append(collected_panics,
                         ErrorLog(open_panics[ServiceOf(line)] \o <<" ">>
                                      \o MsgOf(line), log_file_name))]
        ELSE same

\* Faulty variant: no check at the end of the stream
PanicLogNeverFinished_Off == FALSE

\* assert not open_panics, at the end of the stream

PanicLogNeverFinished == open_panics # EmptyDict

\* One iteration of `for line in iter(data.readline, b"")`
ReadLine ==
    /\ scan_pc = "scan"
    /\ pos < Len(data)
    /\ LET line == data[pos + 1]
           r == ScanLine(line)
       IN  /\ pos' = pos + 1
           /\ open_panics' = r.open_panics
           /\ collected_panics' = r.collected_panics
           /\ diagnostic' = r.raised
           /\ scan_pc' = IF r.raised = NoneValue THEN "scan" ELSE "raised"
           /\ panic_log' = Append(panic_log,
                  [emitted |-> IF Len(r.collected_panics)
                                     > Len(collected_panics)
                               THEN Len(r.collected_panics) ELSE 0,
                   pending |-> DOMAIN open_panics])
    /\ UNCHANGED data
    /\ UNCHANGED <<run_vars, group_vars, files_vars, render_vars>>

\* readline returned b"": the final assertion and the return
EndOfStream ==
    /\ scan_pc = "scan"
    /\ pos = Len(data)
    /\ IF PanicLogNeverFinished
       THEN /\ scan_pc' = "raised"
            /\ diagnostic' = Some([text |-> "Panic log never finished",
                                   open_panics |-> open_panics])
       ELSE /\ scan_pc' = "returned"
            /\ UNCHANGED diagnostic
    /\ UNCHANGED <<data, pos, open_panics, collected_panics, panic_log>>
    /\ UNCHANGED <<run_vars, group_vars, files_vars, render_vars>>

RunIdle ==
    /\ errors = <<>>
    /\ known_issues = <<>>
    /\ issues_with_invalid_regex = <<>>
    /\ step_key = ""
    /\ buildkite_label = ""
    /\ env = [BUILDKITE_COMMAND_EXIT_STATUS |-> "0", BUILDKITE |-> "1",
              BUILDKITE_BRANCH |-> "main", BUILDKITE_JOB_ID |-> "job"]
    /\ pc = "idle"
    /\ idx = 1
    /\ known_errors = <<>>
    /\ unknown_errors = <<>>
    /\ already_reported_issue_numbers = {}
    /\ annotations = <<>>
    /\ ret = NoneValue
    /\ outcomes = <<>>

InitPanics ==
    /\ data \in SeqsUpTo(Lines, MaxLines)
    /\ pos = 0
    /\ open_panics = EmptyDict
    /\ collected_panics = <<>>
    /\ scan_pc = "scan"
    /\ diagnostic = NoneValue
    /\ panic_log = <<>>
    /\ RunIdle
    /\ GroupIdle
    /\ FilesIdle
    /\ RenderIdle

NextPanics ==
    \/ ReadLine
    \/ EndOfStream

SpecPanics == InitPanics /\ [][NextPanics]_vars

----------------------------------------------------------------------------
(* get_errors: the scanner, the report extractor and the merge *)

\* The fatal signatures of ERROR_RE that occur in the lines below
FatalSignatures == {"segfault at", "out of memory"}

LogLines ==
    {<<"svcA", "|", PanickedAt>>,
     <<"svcA", "|", "out of memory">>,
     <<"svcA", "|", "stack backtrace">>,
     <<"svcA", "|", "segfault at">>,
     <<"svcA", "|", "segfault at", Ignored>>,
     <<"environmentd", "|", "segfault at">>,
     <<"environmentd", "|", "out of memory">>}

\* Faulty variant: the out-of-memory signature is missing from the pattern
ERROR_RE_SegfaultOnly(line) == Contains(line, "segfault at")

\* ERROR_RE is anchored on the line (^ .* ( ... ) .* $, re.MULTILINE): it
\* matches each line that carries a signature, and the match is the line
ERROR_RE(line) == \E t \in FatalSignatures : Contains(line, t)

\* ERROR_RE.finditer(data): the matched lines, in order
Finditer(lines) ==
    SelectSeq([i \in 1..Len(lines) |-> i], LAMBDA i : ERROR_RE(lines[i]))

\* Faulty variant: the service name is not looked at
CoverageSegfault_AnyService(match) ==
    /\ Contains(match, "segfault at")
    /\ coverage_enabled

\* b"environmentd" in match.group(0) and b"segfault at" in match.group(0)
\* and ui.env_is_truthy("CI_COVERAGE_ENABLED")
CoverageSegfault(match) ==
    /\ Contains(match, "environmentd")
    /\ Contains(match, "segfault at")
    /\ coverage_enabled

\* Faulty variant: the ignore patterns are not consulted
KeepMatch_NoIgnore(match) == ~CoverageSegfault(match)

\* The two `continue` tests of the loop over the matches
KeepMatch(match) ==
    /\ ~IGNORE_RE(match)
    /\ ~CoverageSegfault(match)

\* The lines whose match _collect_errors_in_logs appends, in order
CollectedLines(lines) ==
    SelectSeq(Finditer(lines), LAMBDA i : KeepMatch(lines[i]))

collect_errors_in_logs(lines, name) ==
    [k \in 1..Len(CollectedLines(lines)) |->
        ErrorLog(lines[CollectedLines(lines)[k]], name)]

\* A report is a sequence of suites, a suite a sequence of test cases, a
\* test case has a classname, a name and a sequence of results; message
\* and text of a result are optional.
JunitDocs ==
    {<<>>,
     << <<[classname |-> "suite", name |-> "case",
           result |-> <<[tag |-> "failure",
                         message |-> Some(<<"assertion failed">>),
                         text |-> NoneValue],
                        [tag |-> "skipped", message |-> NoneValue,
                         text |-> NoneValue]>>],
          [classname |-> "suite", name |-> "other",
           result |-> <<[tag |-> "error", message |-> NoneValue,
                         text |-> Some(<<"0x1">>)]>>]>> >>}

\* value or ""
OrEmpty(opt) == IF opt = NoneValue THEN <<>> ELSE opt[1]

RECURSIVE Flatten(_)
Flatten(seqs) ==
    IF seqs = <<>> THEN <<>> ELSE Head(seqs) \o Flatten(Tail(seqs))

ResultsOf(testcase) ==
    LET kept == SelectSeq(testcase.result,
                          LAMBDA r : r.tag \in {"error", "failure"})
    IN  [k \in 1..Len(kept) |->
            JunitError(testcase.classname, testcase.name,
                       OrEmpty(kept[k].message), OrEmpty(kept[k].text))]

get_errors_from_junit_file(xml) ==
    Flatten([n \in 1..Len(xml) |->
                Flatten([m \in 1..Len(xml[n]) |-> ResultsOf(xml[n][m])])])

FileNames == {"services.log", "junit_testdrive_1.xml", "junit_mzcompose.xml"}

\* "junit_" in log_file_name and "junit_testdrive_" not in log_file_name
IsJunitReport(name) ==
    /\ name \in {"junit_testdrive_1.xml", "junit_mzcompose.xml"}
    /\ name \notin {"junit_testdrive_1.xml"}

\* Faulty variant: the panic records are put before the scanner's
MergeFile_PanicsFirst(scanned, panics) == panics \o scanned

\* error_logs.extend(_collect_errors_in_logs(...)) and then
\* error_logs.extend(_collect_service_panics_in_logs(...))
MergeFile(scanned, panics) == scanned \o panics

\* The line at which the k-th record of collected_panics was appended, and
\* the start line it was combined with
ResolvingLine(k) == CHOOSE l \in 1..pos : panic_log[l].emitted = k

StartLine(k) ==
    LET l == ResolvingLine(k)
        starts == {i \in 1..(l-1) :
                      /\ PANIC_IN_SERVICE_START_RE(data[i])
                      /\ ServiceOf(data[i]) = ServiceOf(data[l])}
    IN  CHOOSE i \in starts : \A j \in starts : j <= i

\* One iteration of `for log_file_name in log_file_names`, up to the end of
\* _collect_errors_in_logs for a plain log file
NextFile ==
    /\ get_pc = "files"
    /\ file_idx <= Len(log_file_names)
    /\ LET name == log_file_names[file_idx]
           file == file_system[name]
       IN  IF IsJunitReport(name)
           THEN /\ error_logs' = error_logs
                       \o get_errors_from_junit_file(file.suites)
                /\ error_origins' = error_origins
                       \o [k \in 1..Len(get_errors_from_junit_file(file.suites))
                              |-> [file |-> file_idx, source |-> "junit",
                                   first |-> k, last |-> k]]
                /\ file_idx' = file_idx + 1
                /\ UNCHANGED <<collected_errors, match_log, get_pc>>
                /\ UNCHANGED panic_vars
           ELSE IF file.lines = <<>>
           THEN \* mmap raises ValueError: empty file, ignore
                /\ file_idx' = file_idx + 1
                /\ UNCHANGED <<error_logs, error_origins, collected_errors,
                               match_log, get_pc>>
                /\ UNCHANGED panic_vars
           ELSE /\ collected_errors' = collect_errors_in_logs(file.lines, name)
                /\ match_log' = CollectedLines(file.lines)
                /\ get_pc' = "panics"
                /\ data' = file.lines
                /\ pos' = 0
                /\ open_panics' = EmptyDict
                /\ collected_panics' = <<>>
                /\ scan_pc' = "scan"
                /\ diagnostic' = NoneValue
                /\ panic_log' = <<>>
                /\ UNCHANGED <<error_logs, error_origins, file_idx>>
    /\ UNCHANGED <<log_file_names, file_system, coverage_enabled>>
    /\ UNCHANGED <<run_vars, group_vars, render_vars>>

\* _collect_service_panics_in_logs returned: the file's records are
\* appended to error_logs, the scanner's first
CloseFile ==
    /\ get_pc = "panics"
    /\ scan_pc = "returned"
    /\ error_logs' = error_logs \o MergeFile(collected_errors, collected_panics)
    /\ error_origins' = error_origins
           \o [k \in 1..Len(match_log) |->
                  [file |-> file_idx, source |-> "scanner",
                   first |-> match_log[k], last |-> match_log[k]]]
           \o [k \in 1..Len(collected_panics) |->
                  [file |-> file_idx, source |-> "panic",
                   first |-> StartLine(k), last |-> ResolvingLine(k)]]
    /\ file_idx' = file_idx + 1
    /\ get_pc' = "files"
    /\ collected_errors' = <<>>
    /\ match_log' = <<>>
    /\ data' = <<>>
    /\ pos' = 0
    /\ open_panics' = EmptyDict
    /\ collected_panics' = <<>>
    /\ scan_pc' = "idle"
    /\ panic_log' = <<>>
    /\ UNCHANGED diagnostic
    /\ UNCHANGED <<log_file_names, file_system, coverage_enabled>>
    /\ UNCHANGED <<run_vars, group_vars, render_vars>>

\* Faulty variant: the exception is caught like the ValueError of an empty
\* file: the scanner's records are kept and the next file is read
AbortFile_KeepGoing ==
    /\ get_pc = "panics"
    /\ scan_pc = "raised"
    /\ error_logs' = error_logs \o collected_errors
    /\ error_origins' = error_origins
           \o [k \in 1..Len(match_log) |->
                  [file |-> file_idx, source |-> "scanner",
                   first |-> match_log[k], last |-> match_log[k]]]
    /\ file_idx' = file_idx + 1
    /\ get_pc' = "files"
    /\ collected_errors' = <<>>
    /\ match_log' = <<>>
    /\ data' = <<>>
    /\ pos' = 0
    /\ open_panics' = EmptyDict
    /\ collected_panics' = <<>>
    /\ scan_pc' = "idle"
    /\ panic_log' = <<>>
    /\ UNCHANGED diagnostic
    /\ UNCHANGED <<log_file_names, file_system, coverage_enabled>>
    /\ UNCHANGED <<run_vars, group_vars, render_vars>>

\* An assertion of _collect_service_panics_in_logs failed: the exception
\* leaves _get_errors_from_log_file and get_errors
AbortFile ==
    /\ get_pc = "panics"
    /\ scan_pc = "raised"
    /\ get_pc' = "raised"
    /\ UNCHANGED <<log_file_names, file_system, coverage_enabled, file_idx,
                   error_logs, collected_errors, match_log, error_origins>>
    /\ UNCHANGED <<run_vars, panic_vars, group_vars, render_vars>>

\* return error_logs
ReturnErrors ==
    /\ get_pc = "files"
    /\ file_idx > Len(log_file_names)
    /\ get_pc' = "returned"
    /\ UNCHANGED <<log_file_names, file_system, coverage_enabled, file_idx,
                   error_logs, collected_errors, match_log, error_origins>>
    /\ UNCHANGED <<run_vars, panic_vars, group_vars, render_vars>>

\* The files of a run: the lines of the two plain files are the two parts
\* of one sequence, a file that is not named is empty
InitFiles ==
    /\ log_file_names \in SeqsUpTo(FileNames, MaxFiles)
    /\ \E s \in SeqsUpTo(LogLines, MaxFileLines), cut \in 0..MaxFileLines,
          xml \in JunitDocs :
          /\ cut <= Len(s)
          /\ file_system =
                 [n \in FileNames |->
                     IF n = "services.log"
                     THEN [lines |-> SubSeq(s, 1, cut), suites |-> <<>>]
                     ELSE IF n = "junit_testdrive_1.xml"
                     THEN [lines |-> SubSeq(s, cut + 1, Len(s)),
                           suites |-> <<>>]
                     ELSE [lines |-> <<>>, suites |-> xml]]
    /\ \A n \in FileNames :
          (\A k \in DOMAIN log_file_names : log_file_names[k] # n)
              => file_system[n] = [lines |-> <<>>, suites |-> <<>>]
    /\ coverage_enabled \in BOOLEAN
    /\ file_idx = 1
    /\ error_logs = <<>>
    /\ collected_errors = <<>>
    /\ match_log = <<>>
    /\ error_origins = <<>>
    /\ get_pc = "files"
    /\ RunIdle
    /\ PanicIdle
    /\ GroupIdle
    /\ RenderIdle

NextFiles ==
    \/ NextFile
    \/ ReadLine
    \/ EndOfStream
    \/ CloseFile
    \/ AbortFile
    \/ ReturnErrors

SpecFiles == InitFiles /\ [][NextFiles]_vars

----------------------------------------------------------------------------
(* group_identical_errors on the two lists of annotate_errors, for lists  *)
(* of freshly built records                                                *)

GroupUnknown ==
    {ObservedErrorWithLocation(M1, NoneValue, "services.log",
                               Some("artifact-url")),
     ObservedErrorWithLocation(M1, NoneValue, "journal.log", NoneValue),
     ObservedErrorWithLocation(<<"segfault at">>, Some(<<"0x1">>), "case",
                               NoneValue),
     InvalidRegexRecord}

GroupKnown ==
    {FailureInCoverageRun(<<"segfault at", "\n", "in Code Coverage">>, "case"),
     ObservedErrorWithIssue(M1, NoneValue, "Known issue", "KNOWN_ISSUE",
                            [info |-> [number |-> 1]], FALSE, "services.log",
                            Some("artifact-url")),
     ObservedErrorWithIssue(<<"segfault at">>, Some(<<"0x1">>), "Known issue",
                            "KNOWN_ISSUE", [info |-> [number |-> 2]], FALSE,
                            "case", NoneValue)}

\* unknown_errors = group_identical_errors(unknown_errors)
\* known_errors = group_identical_errors(known_errors)
GroupErrors ==
    /\ group_result = NoneValue
    /\ group_result' = Some(<<group_identical_errors(group_args[1]),
                              group_identical_errors(group_args[2])>>)
    /\ group_args' = <<AfterGrouping(group_args[1]),
                       AfterGrouping(group_args[2])>>
    /\ UNCHANGED group_passed
    /\ UNCHANGED <<run_vars, panic_vars, files_vars, render_vars>>

InitGroup ==
    /\ group_args \in SeqsUpTo(GroupUnknown, MaxGroup)
                          \X SeqsUpTo(GroupKnown, MaxGroup)
    /\ group_passed = group_args
    /\ group_result = NoneValue
    /\ RunIdle
    /\ PanicIdle
    /\ FilesIdle
    /\ RenderIdle

NextGroup == GroupErrors

SpecGroup == InitGroup /\ [][NextGroup]_vars

----------------------------------------------------------------------------
(* The program from its files to its exit: annotate_logged_errors calls   *)
(* get_errors and classifies what it returns.                             *)

\* A panic start of a service and a fatal line of the same service
RunLines ==
    {<<"svcA", "|", PanickedAt>>,
     <<"svcA", "|", "segfault at">>}

\* errors = get_errors(log_files), when get_errors returns
EnterRun ==
    /\ pc = "idle"
    /\ get_pc = "returned"
    /\ errors' = error_logs
    /\ pc' = "start"
    /\ UNCHANGED <<known_issues, issues_with_invalid_regex, step_key,
                   buildkite_label, env, idx, known_errors, unknown_errors,
                   already_reported_issue_numbers, annotations, ret,
                   outcomes>>
    /\ UNCHANGED <<panic_vars, group_vars, files_vars, render_vars>>

\* The AssertionError leaves annotate_logged_errors at the call of
\* get_errors and then main: nothing is assigned, nothing is returned
PropagateAbort ==
    /\ pc = "idle"
    /\ get_pc = "raised"
    /\ pc' = "aborted"
    /\ UNCHANGED <<errors, known_issues, issues_with_invalid_regex, step_key,
                   buildkite_label, env, idx, known_errors, unknown_errors,
                   already_reported_issue_numbers, annotations, ret,
                   outcomes>>
    /\ UNCHANGED <<panic_vars, group_vars, files_vars, render_vars>>

\* A failed job of a pull request; the registry is empty or holds one
\* issue, open or closed, for the fatal line
InitRun ==
    /\ log_file_names \in SeqsUpTo(FileNames, MaxFiles)
    /\ \E s \in SeqsUpTo(RunLines, MaxFileLines), cut \in 0..MaxFileLines,
          xml \in JunitDocs :
          /\ cut <= Len(s)
          /\ file_system =
                 [n \in FileNames |->
                     IF n = "services.log"
                     THEN [lines |-> SubSeq(s, 1, cut), suites |-> <<>>]
                     ELSE IF n = "junit_testdrive_1.xml"
                     THEN [lines |-> SubSeq(s, cut + 1, Len(s)),
                           suites |-> <<>>]
                     ELSE [lines |-> <<>>, suites |-> xml]]
    /\ \A n \in FileNames :
          (\A k \in DOMAIN log_file_names : log_file_names[k] # n)
              => file_system[n] = [lines |-> <<>>, suites |-> <<>>]
    /\ coverage_enabled = FALSE
    /\ file_idx = 1
    /\ error_logs = <<>>
    /\ collected_errors = <<>>
    /\ match_log = <<>>
    /\ error_origins = <<>>
    /\ get_pc = "files"
    /\ errors = <<>>
    /\ known_issues
           \in {r \in Registries({"segfault at"}, {NoneValue}, MaxRegistry) :
                   Len(r) <= 1}
    /\ issues_with_invalid_regex = <<>>
    /\ step_key = "K"
    /\ buildkite_label = "L"
    /\ env = [BUILDKITE_COMMAND_EXIT_STATUS |-> "1", BUILDKITE |-> "1",
              BUILDKITE_BRANCH |-> "pr", BUILDKITE_JOB_ID |-> "job"]
    /\ pc = "idle"
    /\ idx = 1
    /\ known_errors = <<>>
    /\ unknown_errors = <<>>
    /\ already_reported_issue_numbers = {}
    /\ annotations = <<>>
    /\ ret = NoneValue
    /\ outcomes = <<>>
    /\ PanicIdle
    /\ GroupIdle
    /\ RenderIdle

NextRun ==
    \/ NextFile
    \/ ReadLine
    \/ EndOfStream
    \/ CloseFile
    \/ AbortFile
    \/ ReturnErrors
    \/ EnterRun
    \/ PropagateAbort
    \/ GetErrors
    \/ HandleNext
    \/ AnnotateErrors
    \/ ReturnCount

SpecRun == InitRun /\ [][NextRun]_vars

----------------------------------------------------------------------------
(* The renderings of the ObservedError classes.  A text is a sequence of  *)
(* characters; a rendering is kept as its parts, in the order in which    *)
(* the f-string concatenates them: head, message, separator, details.     *)

\* The default of max_length in crop_text and format_error_message
DefaultMaxLength == 10000

TruncationMarker == " [...]"

\* The three backquotes that open and close a code block, as one character
CodeFence == "<fence>"

\* The three backquotes, each behind a backslash
EscapedFence == "<escaped fence>"

crop_text(text, max_length) ==
    IF text = NoneValue THEN <<>>
    ELSE IF Len(text[1]) > max_length
    THEN SubSeq(text[1], 1, max_length) \o <<TruncationMarker>>
    ELSE text[1]

\* crop_text, then every code fence of the text replaced by the escaped one
sanitize_text(text, max_length) ==
    LET cropped == crop_text(Some(text), max_length) IN
    [i \in 1..Len(cropped) |->
        IF cropped[i] = CodeFence THEN EscapedFence ELSE cropped[i]]

format_error_message(error_message, max_length) ==
    IF error_message = NoneValue \/ error_message[1] = <<>>
    THEN <<>>
    ELSE <<CodeFence, "\n">> \o sanitize_text(error_message[1], max_length)
             \o <<"\n", CodeFence>>

\* ObservedErrorWithIssue._get_issue_presentation
IssuePresentation(e) ==
    IF e.issue_is_closed THEN <<"#", e.issue_number, ", closed">>
    ELSE <<"#", e.issue_number>>

LocationMarkdown(e) ==
    IF e.location_url = NoneValue THEN <<e.location>>
    ELSE <<"<a href=", e.location_url[1], ">", e.location, "</a>">>

to_text(e) ==
    CASE e.cls = "ObservedErrorWithIssue" ->
           [head |-> <<e.error_type, " ", e.issue_title, " (">>
                         \o IssuePresentation(e)
                         \o <<") in ", e.location, ": ">>,
            message |-> crop_text(e.error_message, e.max_error_length),
            separator |-> IF e.error_details # NoneValue
                          THEN <<"\n">> ELSE <<>>,
            details |-> IF e.error_details # NoneValue
                        THEN crop_text(e.error_details, e.max_details_length)
                        ELSE <<>>]
      [] e.cls = "ObservedErrorWithLocation" ->
           [head |-> <<e.error_type, " in ", e.location, ": ">>,
            message |-> crop_text(e.error_message, e.max_error_length),
            separator |-> IF e.error_details \notin {NoneValue, Some(<<>>)}
                          THEN <<" ">> ELSE <<>>,
            details |-> IF e.error_details \notin {NoneValue, Some(<<>>)}
                        THEN crop_text(e.error_details, e.max_details_length)
                        ELSE <<>>]
      [] e.cls = "FailureInCoverageRun" ->
           [head |-> <<e.location, ": ">>,
            message |-> crop_text(e.error_message, DefaultMaxLength),
            separator |-> <<>>,
            details |-> <<>>]

to_markdown(e) ==
    CASE e.cls = "ObservedErrorWithIssue" ->
           [head |-> <<e.error_type, " <a href=", e.issue_url, ">",
                       e.issue_title, " (">>
                         \o IssuePresentation(e)
                         \o <<")</a> in ">> \o LocationMarkdown(e)
                         \o <<":\n">>,
            message |-> format_error_message(e.error_message,
                                             e.max_details_length),
            separator |-> IF e.error_details # NoneValue
                          THEN <<"\n">> ELSE <<>>,
            details |-> IF e.error_details # NoneValue
                        THEN format_error_message(e.error_details,
                                                  e.max_details_length)
                        ELSE <<>>]
      [] e.cls = "ObservedErrorWithLocation" ->
           [head |-> <<e.error_type, " in ">> \o LocationMarkdown(e)
                         \o <<":\n">>,
            message |-> format_error_message(e.error_message,
                                             e.max_error_length),
            separator |-> IF e.error_details \notin {NoneValue, Some(<<>>)}
                          THEN <<"\n">> ELSE <<>>,
            details |-> IF e.error_details \notin {NoneValue, Some(<<>>)}
                        THEN format_error_message(e.error_details,
                                                  e.max_details_length)
                        ELSE <<>>]
      [] e.cls = "FailureInCoverageRun" ->
           [head |-> <<e.location, ":\n">>,
            message |-> format_error_message(e.error_message,
                                             DefaultMaxLength),
            separator |-> <<>>,
            details |-> <<>>]

RenderTexts == SeqsUpTo({"a", CodeFence}, MaxText)

OptionalTexts == {NoneValue} \cup {Some(t) : t \in RenderTexts}

\* The records that are rendered: the three classes, with the length
\* limits a caller may pass (kw_only fields max_error_length and
\* max_details_length)
RenderRecords ==
    [cls : {"ObservedErrorWithIssue"},
     error_type : {"Known issue"}, error_message : OptionalTexts,
     error_details : OptionalTexts, location : {"services.log"},
     location_url : {NoneValue, Some("artifact-url")},
     max_error_length : 0..MaxLimit, max_details_length : 0..MaxLimit,
     issue_number : {1}, issue_url : {"url"}, issue_title : {"issue"},
     issue_is_closed : BOOLEAN]
    \cup
    [cls : {"ObservedErrorWithLocation"},
     error_type : {"Unknown error"}, error_message : OptionalTexts,
     error_details : OptionalTexts, location : {"services.log"},
     location_url : {NoneValue, Some("artifact-url")},
     max_error_length : 0..MaxLimit, max_details_length : 0..MaxLimit]
    \cup
    [cls : {"FailureInCoverageRun"},
     error_type : {"Failure"}, error_message : OptionalTexts,
     error_details : {NoneValue}, location : {"case"},
     location_url : {NoneValue},
     max_error_length : 0..MaxLimit, max_details_length : 0..MaxLimit]

\* error.to_text() and error.to_markdown() of one record
Render ==
    /\ render_error # NoneValue
    /\ rendered = NoneValue
    /\ rendered' = Some([to_text |-> to_text(render_error[1]),
                         to_markdown |-> to_markdown(render_error[1])])
    /\ UNCHANGED render_error
    /\ UNCHANGED <<run_vars, panic_vars, group_vars, files_vars>>

InitRender ==
    /\ render_error \in {Some(e) : e \in RenderRecords}
    /\ rendered = NoneValue
    /\ RunIdle
    /\ PanicIdle
    /\ GroupIdle
    /\ FilesIdle

NextRender == Render

SpecRender == InitRender /\ [][NextRender]_vars

----------------------------------------------------------------------------
(* Properties of the classification *)

\* The text the classifier searches for the k-th error
ClassifiedText(k) ==
    IF errors[k].cls = "ErrorLog"
    THEN errors[k].match
    ELSE errors[k].message \o <<"\n">> \o errors[k].text

ClassifiedMessage(k) ==
    IF errors[k].cls = "ErrorLog" THEN errors[k].match ELSE errors[k].message

\* The k-th error went through handle_error (it is no coverage failure)
Classified(k) == k \in DOMAIN outcomes /\ outcomes[k].branch # "coverage"

PatternMatches(i, k) ==
    \E n \in DOMAIN ClassifiedText(k) :
        /\ ClassifiedText(k)[n] = known_issues[i].regex
        /\ ClassifiedText(k)[n] # RunNoise

InScope(i) ==
    \/ known_issues[i].apply_to = NoneValue
    \/ \E v \in {step_key, buildkite_label} :
          Lower(v) = known_issues[i].apply_to[1]

\* The entries of the given state that qualify for the k-th error
Qualifying(state, k) ==
    {i \in DOMAIN known_issues :
        /\ known_issues[i].info.state = state
        /\ PatternMatches(i, k)
        /\ InScope(i)}

Least(S) == CHOOSE i \in S : \A j \in S : i <= j

\* The entry that wins for the k-th error, 0 if none qualifies
Winner(k) ==
    LET open == Qualifying("open", k)
        closed == Qualifying("closed", k)
    IN  IF open # {} THEN Least(open)
        ELSE IF closed # {} THEN Least(closed)
        ELSE 0

WinnerNumber(k) ==
    LET w == Winner(k) IN
    IF w = 0 THEN 0 ELSE known_issues[w].info.number

\* The record the k-th error produced, when it produced one
RecordOf(k) ==
    IF outcomes[k].list = "known"
    THEN known_errors[outcomes[k].at]
    ELSE unknown_errors[outcomes[k].at]

\* C1: when an open and a closed issue both match an error's text and both
\* are in scope, handle_error takes the open-issue branch whatever the
\* registry order: it never appends a "Potential regression" (or any other)
\* record to the unknown list for that error, and the record it reports for
\* the error is the "Known issue" record of an open issue.
C1_OpenOutranksClosed ==
    \A k \in DOMAIN outcomes :
        (/\ Classified(k)
         /\ Qualifying("open", k) # {}
         /\ Qualifying("closed", k) # {})
        => /\ outcomes[k].branch = "open"
           /\ known_issues[outcomes[k].issue].info.state = "open"
           /\ outcomes[k].list # "unknown"
           /\ outcomes[k].list = "known"
                 => /\ RecordOf(k).error_type = "Known issue"
                    /\ RecordOf(k).issue_is_closed = FALSE
                    /\ RecordOf(k).issue_number
                           = known_issues[outcomes[k].issue].info.number
           /\ outcomes[k].list = "none"
                 => \E j \in 1..(k-1) :
                       WinnerNumber(j)
                           = known_issues[outcomes[k].issue].info.number

\* C1 witness: a closed entry precedes an open one in the registry, both
\* qualify for an error, and the error was reported as a known issue.
C1_Witness ==
    \E k \in DOMAIN outcomes :
        /\ Classified(k)
        /\ \E c \in Qualifying("closed", k) :
              \E o \in Qualifying("open", k) : c < o
        /\ outcomes[k].list = "known"
        /\ RecordOf(k).error_type = "Known issue"

\* The first error, in error order, whose winning entry belongs to the same
\* issue as that of the k-th error
FirstFor(k) ==
    LET n == WinnerNumber(k) IN
    Least({j \in 1..k : Classified(j) /\ WinnerNumber(j) = n})

IssueRecords(n) ==
    {<<"known", p>> : p \in {q \in DOMAIN known_errors :
         /\ known_errors[q].cls = "ObservedErrorWithIssue"
         /\ known_errors[q].issue_number = n}}
    \cup
    {<<"unknown", p>> : p \in {q \in DOMAIN unknown_errors :
         /\ unknown_errors[q].cls = "ObservedErrorWithIssue"
         /\ unknown_errors[q].issue_number = n}}

\* C2: over the known and unknown lists together an issue identifier is
\* referenced by at most one record; that record was built from the first
\* error whose winning match is that issue, and every later error with the
\* same winning identifier produced no record.
C2_DedupByIssue ==
    /\ \A n \in 1..MaxRegistry : Cardinality(IssueRecords(n)) <= 1
    /\ \A k \in DOMAIN outcomes :
          (Classified(k) /\ Winner(k) # 0)
          => IF FirstFor(k) = k
             THEN /\ outcomes[k].list # "none"
                  /\ IssueRecords(WinnerNumber(k))
                         = {<<outcomes[k].list, outcomes[k].at>>}
                  /\ RecordOf(k).error_message = ClassifiedMessage(k)
                  /\ RecordOf(k).location
                         = IF errors[k].cls = "ErrorLog"
                           THEN errors[k].file ELSE errors[k].testcase
             ELSE /\ outcomes[k].list = "none"
                  /\ outcomes[k].at = 0

\* C2 witness: two errors with different texts win the same issue; the
\* first one is reported and the second one left no record.
C2_Witness ==
    /\ Len(outcomes) >= 2
    /\ ClassifiedText(1) # ClassifiedText(2)
    /\ Winner(1) # 0
    /\ WinnerNumber(1) = WinnerNumber(2)
    /\ outcomes[1].list # "none"
    /\ outcomes[2].list = "none"
    /\ Len(known_errors) + Len(unknown_errors) = 1

\* The errors handled so far that left a record in one of the two lists
Reported == {k \in DOMAIN outcomes : outcomes[k].list # "none"}

\* C3 as stated: every classified error produces exactly one output record.
C3_Original_OneRecordEach ==
    /\ \A k \in DOMAIN outcomes : Classified(k) => outcomes[k].list # "none"
    /\ Len(known_errors) + Len(unknown_errors)
           = Len(issues_with_invalid_regex) + Len(outcomes)

\* C3 (amended): every classified error takes exactly one of the three
\* branches and produces at most one record: exactly one, in the list of its
\* branch, unless the identifier of its winning issue was already reported
\* for an earlier error of the run, in which case it produces none.
C3_AtMostOneRecord ==
    /\ \A k \in DOMAIN outcomes :
          Classified(k) =>
             /\ outcomes[k].branch \in {"open", "closed", "none"}
             /\ outcomes[k].branch
                    = IF Qualifying("open", k) # {} THEN "open"
                      ELSE IF Qualifying("closed", k) # {} THEN "closed"
                      ELSE "none"
             /\ outcomes[k].list
                    = IF Winner(k) # 0 /\ FirstFor(k) # k THEN "none"
                      ELSE IF outcomes[k].branch = "open" THEN "known"
                      ELSE "unknown"
             /\ outcomes[k].list # "none"
                    => RecordOf(k).error_type
                           = CASE outcomes[k].branch = "open" -> "Known issue"
                               [] outcomes[k].branch = "closed"
                                      -> "Potential regression"
                               [] OTHER -> "Unknown error"
    /\ Len(known_errors) + Len(unknown_errors)
           = Len(issues_with_invalid_regex) + Cardinality(Reported)
    /\ \A k, l \in Reported :
          (outcomes[k].list = outcomes[l].list
              /\ outcomes[k].at = outcomes[l].at) => k = l

\* C3 witness: one error of each kind was classified: a known issue, a
\* suppressed repeat of it, and the run is past both.
C3_Witness ==
    /\ Len(outcomes) >= 2
    /\ outcomes[1].list = "known"
    /\ outcomes[2].branch = "open"
    /\ outcomes[2].list = "none"

\* Scope restriction that differs, whatever the letter case, from the
\* build-step key and from the label
ScopeDiffers(i) ==
    /\ known_issues[i].apply_to # NoneValue
    /\ \A v \in {step_key, buildkite_label} :
          Lower(v) # Lower(known_issues[i].apply_to[1])

\* C10: the issue chosen for an error is the first entry, in registry order,
\* of the open entries that match and apply, else the first such closed
\* entry, else none; an entry whose scope differs from key and label is
\* never chosen, and entries passed over for their scope do not end the
\* scan.
C10_FirstApplicableWins ==
    \A k \in DOMAIN outcomes :
        Classified(k) =>
           /\ outcomes[k].issue = Winner(k)
           /\ \A i \in DOMAIN known_issues :
                 ScopeDiffers(i) => outcomes[k].issue # i
           /\ (outcomes[k].list # "none" /\ Winner(k) # 0)
                 => /\ RecordOf(k).cls = "ObservedErrorWithIssue"
                    /\ RecordOf(k).issue_number = WinnerNumber(k)
           /\ Winner(k) = 0
                 => RecordOf(k).cls = "ObservedErrorWithLocation"

\* C10 witness: the chosen entry comes after an entry of the same state
\* whose pattern matches the error but whose scope does not apply.
C10_Witness ==
    \E k \in DOMAIN outcomes :
        /\ Classified(k)
        /\ outcomes[k].issue > 1
        /\ outcomes[k].list # "none"
        /\ \E i \in 1..(outcomes[k].issue - 1) :
              /\ PatternMatches(i, k)
              /\ ScopeDiffers(i)
              /\ known_issues[i].info.state
                     = known_issues[outcomes[k].issue].info.state

\* The restriction of entry i equals the build-step key or the label up to
\* letter case
InScopeAnyCase(i) ==
    \/ known_issues[i].apply_to = NoneValue
    \/ \E v \in {step_key, buildkite_label} :
          Lower(v) = Lower(known_issues[i].apply_to[1])

QualifyingAnyCase(state, k) ==
    {i \in DOMAIN known_issues :
        /\ known_issues[i].info.state = state
        /\ PatternMatches(i, k)
        /\ InScopeAnyCase(i)}

\* C11 as stated: an entry whose restriction equals the build-step key or
\* the label up to letter case, in the restriction or in the run-context
\* value, is applicable: the entry chosen for an error is the first open
\* entry, else the first closed entry, that matches and is applicable in
\* this sense.
C11_Original_ScopeIgnoresCase ==
    \A k \in DOMAIN outcomes :
        Classified(k) =>
           outcomes[k].issue
               = IF QualifyingAnyCase("open", k) # {}
                 THEN Least(QualifyingAnyCase("open", k))
                 ELSE IF QualifyingAnyCase("closed", k) # {}
                 THEN Least(QualifyingAnyCase("closed", k))
                 ELSE 0

----------------------------------------------------------------------------
(* Properties of whole runs of annotate_logged_errors *)

\* C8 as stated, for the runs the code's own last branch names (a CI job
\* outside the main branch): when no error is detected and the process
\* exited with a non-zero status, the finished run has produced an
\* Annotation with is_failure set and empty known and unknown lists.
C8_Original_FailedRunAnnotated ==
    (/\ pc = "returned"
     /\ errors = <<>>
     /\ env.BUILDKITE_COMMAND_EXIT_STATUS # "0"
     /\ env.BUILDKITE = "1"
     /\ env.BUILDKITE_BRANCH # "main")
    => \E n \in DOMAIN annotations :
          /\ annotations[n].is_failure
          /\ annotations[n].unknown_errors = <<>>
          /\ annotations[n].known_errors = <<>>

IsCoverageFailure(k) ==
    /\ errors[k].cls = "JunitError"
    /\ \/ Contains(errors[k].text, "in Code Coverage")
       \/ Contains(errors[k].message, "covered")

\* The k-th found error is known: an informational coverage failure or an
\* error for which an open issue qualifies
FoundErrorIsKnown(k) ==
    IsCoverageFailure(k) \/ Qualifying("open", k) # {}

\* No earlier error of the run has the same winning issue
FirstOfItsIssue(k) ==
    \A j \in 1..(k-1) :
        IsCoverageFailure(j) \/ WinnerNumber(j) # WinnerNumber(k)

\* The found errors that are reported as unknown errors (potential
\* regressions included), each occurrence counted
UnknownFound ==
    {k \in DOMAIN errors :
        /\ ~FoundErrorIsKnown(k)
        /\ Winner(k) = 0 \/ FirstOfItsIssue(k)}

SingleUnmatchedLogError ==
    /\ Len(errors) = 1
    /\ errors[1].cls = "ErrorLog"
    /\ Winner(1) = 0

Surfaced(n, list) ==
    \E p \in DOMAIN list :
        /\ list[p].cls = "ObservedErrorWithIssue"
        /\ list[p].internal_error_type = "GITHUB_ISSUE_INVALID_REGEX"
        /\ list[p].issue_number = issues_with_invalid_regex[n].issue_number
        /\ list[p].error_message = issues_with_invalid_regex[n].error_message

\* C14 as stated: in every finished run, also one whose input files hold no
\* error, each issue with an invalid pattern has a record in the unknown
\* list of an Annotation of the run.
C14_Original_InvalidPatternSurfaced ==
    pc = "returned" =>
       \A n \in DOMAIN issues_with_invalid_regex :
          \E a \in DOMAIN annotations :
             Surfaced(n, annotations[a].unknown_errors)

\* C15: the Annotation of annotate_errors is a failure exactly when its
\* unknown list is non-empty or the process did not exit successfully: an
\* unknown error makes it a failure whatever the exit status, and known
\* errors alone with a successful process do not.
C15_FailureFlag ==
    \A a \in DOMAIN annotations :
        /\ annotations[a].is_failure
              <=> \/ annotations[a].unknown_errors # <<>>
                  \/ env.BUILDKITE_COMMAND_EXIT_STATUS # "0"
        /\ (annotations[a].unknown_errors = <<>>) = (unknown_errors = <<>>)
        /\ unknown_errors # <<>> => annotations[a].is_failure
        /\ (/\ unknown_errors = <<>>
            /\ env.BUILDKITE_COMMAND_EXIT_STATUS = "0")
              => /\ ~annotations[a].is_failure
                 /\ annotations[a].known_errors # <<>>

\* C15 witness: the process exited with status 0 and an unknown error was
\* found; the Annotation is a failure.
C15_Witness ==
    /\ Len(annotations) = 1
    /\ env.BUILDKITE_COMMAND_EXIT_STATUS = "0"
    /\ issues_with_invalid_regex = <<>>
    /\ Len(annotations[1].unknown_errors) = 1
    /\ annotations[1].unknown_errors[1].cls = "ObservedErrorWithLocation"
    /\ annotations[1].is_failure

\* The loop is about to handle a coverage failure
AtCoverageFailure ==
    /\ pc = "loop"
    /\ idx <= Len(errors)
    /\ IsCoverageFailure(idx)

\* C17: a test failure whose text contains the coverage marker or whose
\* message contains "covered" is not matched against the registry: handling
\* it appends exactly one informational record to the known list and
\* leaves the unknown list and the set of reported issues unchanged, so it
\* adds nothing to the exit count.
C17_CoverageBypass ==
    /\ [](\A k \in DOMAIN outcomes :
             IsCoverageFailure(k)
                => /\ outcomes[k].branch = "coverage"
                   /\ outcomes[k].issue = 0
                   /\ outcomes[k].list = "known"
                   /\ known_errors[outcomes[k].at].cls = "FailureInCoverageRun"
                   /\ known_errors[outcomes[k].at].error_type = "Failure"
                   /\ known_errors[outcomes[k].at].location
                          = errors[k].testcase)
    /\ [](pc = "returned" /\ errors # <<>>
             => ret = Some(Len(issues_with_invalid_regex)
                           + Cardinality({k \in DOMAIN errors :
                                 /\ ~IsCoverageFailure(k)
                                 /\ k \in UnknownFound})))
    /\ [][AtCoverageFailure
             => /\ Len(known_errors') = Len(known_errors) + 1
                /\ SubSeq(known_errors', 1, Len(known_errors)) = known_errors
                /\ known_errors'[Len(known_errors')].cls
                       = "FailureInCoverageRun"
                /\ unknown_errors' = unknown_errors
                /\ already_reported_issue_numbers'
                       = already_reported_issue_numbers]_vars

\* C17 witness: a coverage failure whose text an open and a closed issue
\* match was handled; it is an informational record and the run returned 0.
C17_Witness ==
    /\ pc = "returned"
    /\ ret = Some(0)
    /\ \E k \in DOMAIN outcomes :
          /\ outcomes[k].branch = "coverage"
          /\ Contains(errors[k].message, "covered")
          /\ \E i \in DOMAIN known_issues : PatternMatches(i, k)
    /\ \E k \in DOMAIN outcomes :
          /\ outcomes[k].branch = "coverage"
          /\ Contains(errors[k].text, "in Code Coverage")

Regressions ==
    {k \in DOMAIN outcomes :
        /\ Classified(k)
        /\ Qualifying("open", k) = {}
        /\ Qualifying("closed", k) # {}}

\* The handled errors that no issue matches in scope
Unmatched == {k \in DOMAIN outcomes : Classified(k) /\ Winner(k) = 0}

\* C22 as stated: every error whose only applicable match is a closed issue
\* is appended to the unknown list as a potential regression, not to the
\* known list; the Annotation is then a failure of style "error", and each
\* such error adds 1 to the returned count.
C22_Original_RegressionIsUnknown ==
    /\ \A k \in Regressions :
          /\ outcomes[k].list = "unknown"
          /\ RecordOf(k).error_type = "Potential regression"
    /\ (pc = "returned" /\ errors # <<>>)
          => ret = Some(Len(issues_with_invalid_regex)
                        + Cardinality(Unmatched)
                        + Cardinality(Regressions))

\* C22 (amended): an error whose only applicable match is a closed issue
\* takes the closed-issue branch and never reaches the known list.  Unless
\* the issue was already reported for an earlier error of the run, it is
\* appended to the unknown list as a potential regression and adds 1 to
\* the returned count; a repeat of an already reported issue appends
\* nothing and adds nothing.  With such an error in the run the Annotation
\* is a failure of style "error", whatever the exit status of the process.
C22_RegressionIsUnknown ==
    /\ \A k \in Regressions :
          /\ outcomes[k].branch = "closed"
          /\ IF FirstFor(k) = k
             THEN /\ outcomes[k].list = "unknown"
                  /\ RecordOf(k).error_type = "Potential regression"
                  /\ RecordOf(k).issue_is_closed
                  /\ RecordOf(k).issue_number = WinnerNumber(k)
             ELSE /\ outcomes[k].list = "none"
                  /\ \E p \in DOMAIN unknown_errors :
                        /\ unknown_errors[p].cls = "ObservedErrorWithIssue"
                        /\ unknown_errors[p].issue_number = WinnerNumber(k)
          /\ \A p \in DOMAIN known_errors :
                known_errors[p].cls = "ObservedErrorWithIssue"
                    => known_errors[p].issue_number # WinnerNumber(k)
    /\ (Regressions # {} /\ pc \in {"annotated", "returned"})
          => /\ Len(annotations) = 1
             /\ annotations[1].is_failure
             /\ annotations[1].style = "error"
    /\ (pc = "returned" /\ errors # <<>>)
          => ret = Some(Len(issues_with_invalid_regex)
                        + Cardinality(Unmatched)
                        + Cardinality({k \in Regressions : FirstFor(k) = k}))

\* C22 witness: the process exited with status 0, no pattern is invalid,
\* two errors have a closed issue as their only match: the first is the one
\* potential regression of a failed Annotation, the run returned 1.
C22_Witness ==
    /\ pc = "returned"
    /\ env.BUILDKITE_COMMAND_EXIT_STATUS = "0"
    /\ issues_with_invalid_regex = <<>>
    /\ Regressions = {1, 2}
    /\ outcomes[2].list = "none"
    /\ ret = Some(1)
    /\ annotations[1].is_failure
    /\ annotations[1].style = "error"
    /\ annotations[1].known_errors = <<>>
    /\ annotations[1].unknown_errors[1].error_type = "Potential regression"

----------------------------------------------------------------------------
(* Properties of the aggregation *)

\* Structural equality of two records: kind, message, details and location
SameError(a, b) ==
    /\ a.cls = b.cls
    /\ a.error_type = b.error_type
    /\ a.error_message = b.error_message
    /\ a.error_details = b.error_details
    /\ a.location = b.location

ClassOf(list, r) == {i \in DOMAIN list : SameError(list[i], r)}

RECURSIVE SumOccurrences(_)
SumOccurrences(list) ==
    IF list = <<>> THEN 0
    ELSE Head(list).occurrences + SumOccurrences(Tail(list))

\* The list out is the grouping of the list in
IsGroupingOf(out, in) ==
    /\ \A p, q \in DOMAIN out : SameError(out[p], out[q]) => p = q
    /\ \A i \in DOMAIN in : \E p \in DOMAIN out : SameError(out[p], in[i])
    /\ \A p \in DOMAIN out :
          /\ ClassOf(in, out[p]) # {}
          /\ out[p].occurrences = Cardinality(ClassOf(in, out[p]))
          /\ [out[p] EXCEPT !.occurrences = 1]
                 = in[Least(ClassOf(in, out[p]))]
    /\ SumOccurrences(out) = Len(in)
    /\ \A p, q \in DOMAIN out :
          p < q => Least(ClassOf(in, out[p])) < Least(ClassOf(in, out[q]))

IsIssueRecord(r) == r.error_type \in {"Known issue", "Potential regression"}

\* C23: every known-issue and every potential-regression record of the
\* Annotation has occurrence count 1, because a repeated match of an
\* already reported issue appends nothing; a record with a larger count is
\* an unknown-error, a coverage-failure or an invalid-pattern record.
C23_IssueRecordsCountOne ==
    \A a \in DOMAIN annotations :
       \A list \in {annotations[a].known_errors,
                    annotations[a].unknown_errors} :
          /\ \A p \in DOMAIN list :
                /\ IsIssueRecord(list[p]) => list[p].occurrences = 1
                /\ list[p].occurrences > 1
                      => \/ list[p].cls = "ObservedErrorWithLocation"
                         \/ list[p].cls = "FailureInCoverageRun"
                         \/ list[p].internal_error_type
                                = "GITHUB_ISSUE_INVALID_REGEX"
          /\ \A p, q \in DOMAIN list :
                (/\ IsIssueRecord(list[p])
                 /\ IsIssueRecord(list[q])
                 /\ list[p].issue_number = list[q].issue_number) => p = q

\* C23 witness: the same fatal line was found twice and an issue matches
\* it; the Annotation lists the issue once, with count 1.
C23_Witness ==
    /\ Len(annotations) = 1
    /\ Len(outcomes) = 2
    /\ errors[1] = errors[2]
    /\ Winner(1) # 0
    /\ outcomes[2].list = "none"
    /\ issues_with_invalid_regex = <<>>
    /\ \E list \in {annotations[1].known_errors,
                     annotations[1].unknown_errors} :
          /\ Len(list) = 1
          /\ IsIssueRecord(list[1])
          /\ list[1].occurrences = 1

\* C24: the returned value is the length of the unknown list as it was
\* before grouping: it equals the sum of the occurrence counts of the
\* unknown entries of the Annotation, invalid-pattern records and potential
\* regressions included, and is never less than the number of entries
\* listed.  annotate_errors leaves the length of the caller's list as it is.
C24_CountBeforeGrouping ==
    /\ pc \in {"annotated", "returned"} /\ errors # <<>>
          => /\ Len(annotations) = 1
             /\ Len(unknown_errors)
                    = SumOccurrences(annotations[1].unknown_errors)
             /\ Len(unknown_errors)
                    = Len(issues_with_invalid_regex)
                        + Cardinality({k \in DOMAIN outcomes :
                              outcomes[k].list = "unknown"})
             /\ Len(annotations[1].unknown_errors) <= Len(unknown_errors)
    /\ pc = "returned" /\ errors # <<>>
          => /\ ret = Some(Len(unknown_errors))
             /\ ret = Some(SumOccurrences(annotations[1].unknown_errors))

\* C24 witness: an issue with an invalid pattern and twice the same
\* unmatched fatal line: the Annotation lists two unknown entries, one of
\* them with count 2, and the run returned 3.
C24_Witness ==
    /\ pc = "returned"
    /\ Len(issues_with_invalid_regex) = 1
    /\ Len(annotations) = 1
    /\ Len(annotations[1].unknown_errors) = 2
    /\ annotations[1].unknown_errors[2].occurrences = 2
    /\ ret = Some(3)

----------------------------------------------------------------------------
(* Properties of the renderings *)

\* The text cut at the limit, the marker appended only when it was longer
CutAt(text, limit) ==
    IF text = NoneValue THEN <<>>
    ELSE IF Len(text[1]) <= limit THEN text[1]
    ELSE SubSeq(text[1], 1, limit) \o <<TruncationMarker>>

\* The same text as a fenced block of the markdown rendering
Fenced(cut) ==
    IF cut = <<>> THEN <<>>
    ELSE <<CodeFence, "\n">>
            \o [i \in 1..Len(cut) |->
                   IF cut[i] = CodeFence THEN EscapedFence ELSE cut[i]]
            \o <<"\n", CodeFence>>

\* The details a rendering of the record shows
ShownDetails(e) ==
    IF e.cls = "FailureInCoverageRun" \/ e.error_details = Some(<<>>)
    THEN NoneValue
    ELSE e.error_details

\* C20 as stated: in to_text and in to_markdown of every ObservedError
\* class the message is cut at the record's max_error_length and the
\* details at its max_details_length, each on its own, and the marker is
\* appended only to a field longer than its own limit.
C20_Original_IndependentTruncation ==
    rendered # NoneValue =>
       LET e == render_error[1] IN
       /\ rendered[1].to_text.message
              = CutAt(e.error_message, e.max_error_length)
       /\ rendered[1].to_text.details
              = CutAt(ShownDetails(e), e.max_details_length)
       /\ rendered[1].to_markdown.message
              = Fenced(CutAt(e.error_message, e.max_error_length))
       /\ rendered[1].to_markdown.details
              = Fenced(CutAt(ShownDetails(e), e.max_details_length))

----------------------------------------------------------------------------
(* Properties of get_errors *)

ScenarioStart == <<"svcA", "|", PanickedAt>>

ScenarioContinuation == <<"svcA", "|", "out of memory">>

\* "svcA | thread 'x' panicked at  out of memory"
ScenarioCombined == ScenarioStart \o <<" ">> \o <<"out of memory">>

\* The run was given one plain log file, made of the two lines of scenario 3
ScenarioRun ==
    /\ Len(log_file_names) = 1
    /\ ~IsJunitReport(log_file_names[1])
    /\ file_system[log_file_names[1]].lines
           = <<ScenarioStart, ScenarioContinuation>>

\* C13 as stated: the log file made of the panic-start line and the line
\* "svcA | out of memory" yields exactly one error record, the combined
\* panic text.
C13_Original_OneCombinedRecord ==
    (get_pc = "returned" /\ ScenarioRun)
    => error_logs = <<ErrorLog(ScenarioCombined, log_file_names[1])>>

\* C13 (amended): that file yields two records: the scanner's record for
\* the line "svcA | out of memory", which carries a fatal signature of its
\* own, followed by the combined panic text.
C13_ScenarioTwoRecords ==
    (get_pc = "returned" /\ ScenarioRun)
    => error_logs = <<ErrorLog(ScenarioContinuation, log_file_names[1]),
                      ErrorLog(ScenarioCombined, log_file_names[1])>>

\* C13 witness: the run of scenario 3 has returned its records.
C13_Witness ==
    /\ get_pc = "returned"
    /\ ScenarioRun
    /\ Len(error_logs) = 2
    /\ error_origins[1].source = "scanner"
    /\ error_origins[2].source = "panic"

\* C16: every record of _collect_errors_in_logs is the match of a line with
\* a fatal signature, no ignore pattern matches anywhere in that line, and
\* the records are in the order of their lines in the buffer.
C16_ScannerSoundness ==
    /\ get_pc = "panics" =>
          /\ Len(collected_errors) = Len(match_log)
          /\ \A k \in DOMAIN collected_errors :
                /\ match_log[k] \in DOMAIN data
                /\ collected_errors[k].match = data[match_log[k]]
                /\ collected_errors[k].file = log_file_names[file_idx]
                /\ \E t \in FatalSignatures :
                      Contains(collected_errors[k].match, t)
                /\ ~Contains(collected_errors[k].match, Ignored)
          /\ \A k, l \in DOMAIN match_log :
                k < l => match_log[k] < match_log[l]
    /\ \A k \in DOMAIN error_logs :
          error_origins[k].source = "scanner"
             => /\ \E t \in FatalSignatures : Contains(error_logs[k].match, t)
                /\ ~Contains(error_logs[k].match, Ignored)

\* C16 witness: the buffer holds a fatal line that an ignore pattern matches
\* between two fatal lines that were reported, in their order.
C16_Witness ==
    /\ get_pc = "panics"
    /\ Len(data) = 3
    /\ match_log = <<1, 3>>
    /\ Contains(data[2], "segfault at")
    /\ Contains(data[2], Ignored)
    /\ data[1] # data[3]

\* C18: a fatal-signature match that no ignore pattern matches is dropped
\* exactly when it contains both "segfault at" and "environmentd" and the
\* run is a coverage build; without the flag it is reported, and a match
\* lacking one of the two is reported with and without the flag.
C18_CoverageSuppression ==
    get_pc = "panics" =>
       \A i \in DOMAIN data :
          (/\ \E t \in FatalSignatures : Contains(data[i], t)
           /\ ~Contains(data[i], Ignored))
          => LET reported == \E k \in DOMAIN match_log : match_log[k] = i
                 both == /\ Contains(data[i], "segfault at")
                         /\ Contains(data[i], "environmentd")
             IN  /\ ~reported <=> (both /\ coverage_enabled)
                 /\ ~coverage_enabled => reported
                 /\ ~both => reported

\* C18 witness: in a coverage build the segfault of environmentd was
\* dropped, the segfault of another service and the out-of-memory line of
\* environmentd were reported.
C18_Witness ==
    /\ get_pc = "panics"
    /\ coverage_enabled
    /\ data = <<<<"environmentd", "|", "segfault at">>,
                <<"svcA", "|", "segfault at">>,
                <<"environmentd", "|", "out of memory">>>>
    /\ match_log = <<2, 3>>

\* C19 as stated: the returned list is ordered by file-list order and,
\* within a file, by the position in the file at which each record's text
\* occurs, whichever of the scanner and the panic correlator it is from: no
\* record is listed before a record of the same file whose text ends
\* before its own begins.
C19_Original_InFileOrder ==
    get_pc = "returned" =>
       \A p, q \in DOMAIN error_origins :
          p < q =>
             /\ error_origins[p].file <= error_origins[q].file
             /\ error_origins[p].file = error_origins[q].file
                   => ~(error_origins[q].last < error_origins[p].first)

\* The place of a record among the records of its file
SourceRank(o) == IF o.source = "panic" THEN 2 ELSE 1

InSourceKey(o) == IF o.source = "panic" THEN o.last ELSE o.first

\* The text found in the files at the place a record is said to be from
TextAt(o) ==
    LET lines == file_system[log_file_names[o.file]].lines IN
    IF o.source = "scanner" THEN lines[o.first]
    ELSE lines[o.first] \o <<" ">> \o MsgOf(lines[o.last])

\* C19 (amended): the returned list is ordered by file-list order; within a
\* plain log file the scanner's records come first, in the order of their
\* lines, followed by the panic correlator's records in the order of the
\* lines that resolved them; this is the order in which the errors are
\* classified.
C19_MergeOrder ==
    /\ Len(error_origins) = Len(error_logs)
    /\ \A p \in DOMAIN error_origins :
          error_origins[p].source # "junit"
             => /\ error_logs[p].match = TextAt(error_origins[p])
                /\ error_logs[p].file = log_file_names[error_origins[p].file]
    /\ \A p, q \in DOMAIN error_origins :
          p < q =>
             /\ error_origins[p].file <= error_origins[q].file
             /\ error_origins[p].file = error_origins[q].file
                   => \/ SourceRank(error_origins[p])
                            < SourceRank(error_origins[q])
                      \/ /\ error_origins[p].source = error_origins[q].source
                         /\ InSourceKey(error_origins[p])
                                < InSourceKey(error_origins[q])

\* C19 witness: two files were merged; in the second one the scanner's
\* record of a later line is listed before the panic record of the lines
\* before it.
C19_Witness ==
    /\ get_pc = "returned"
    /\ Len(error_origins) >= 3
    /\ error_origins[1].file = 1
    /\ \E p, q \in DOMAIN error_origins :
          /\ p < q
          /\ error_origins[p].file = 2
          /\ error_origins[p].source = "scanner"
          /\ error_origins[q].file = 2
          /\ error_origins[q].source = "panic"
          /\ error_origins[q].last < error_origins[p].first

----------------------------------------------------------------------------
(* Properties of the program from its files to its exit *)

\* C25: when the panic scan of one log file fails an assertion, get_errors
\* returns nothing: no error reaches the classification, no list is filled,
\* no Annotation is produced and nothing is returned, also when the scanner
\* had collected matches from that file or earlier files had given errors.
\* A run is classified only with what a completed get_errors returned.
C25_AbortIsRunWide ==
    /\ diagnostic # NoneValue
          => /\ scan_pc = "raised"
             /\ get_pc \in {"panics", "raised"}
             /\ pc \in {"idle", "aborted"}
             /\ errors = <<>>
             /\ outcomes = <<>>
             /\ known_errors = <<>>
             /\ unknown_errors = <<>>
             /\ annotations = <<>>
             /\ ret = NoneValue
    /\ pc \notin {"idle", "aborted"}
          => /\ get_pc = "returned"
             /\ errors = error_logs
    /\ pc = "aborted" => get_pc = "raised"

\* C25 witness: an earlier file gave an error, the scanner collected a
\* match from the second file, whose panic was never finished: the run was
\* aborted without an Annotation.
C25_Witness ==
    /\ pc = "aborted"
    /\ file_idx = 2
    /\ error_logs # <<>>
    /\ collected_errors # <<>>
    /\ diagnostic # NoneValue
    /\ diagnostic[1].text = "Panic log never finished"
    /\ annotations = <<>>
    /\ ret = NoneValue

----------------------------------------------------------------------------
(* Properties of the panic correlator *)

IsStart(i) == PANIC_IN_SERVICE_START_RE(data[i])

\* A labeled line that is no panic-start line
IsLabeled(i) == ~IsStart(i) /\ SERVICES_LOG_LINE_RE(data[i])

\* The first labeled line of the service of line i after line i, 0 if none
Resolver(i) ==
    LET later == {j \in (i+1)..Len(data) :
                     IsLabeled(j) /\ ServiceOf(data[j]) = ServiceOf(data[i])}
    IN  IF later = {} THEN 0 ELSE Least(later)

\* The panic-start lines read so far while their service had nothing pending
FreshStarts ==
    {i \in 1..pos :
        IsStart(i) /\ ServiceOf(data[i]) \notin panic_log[i].pending}

\* The services with a pending entry once line i has been handled
PendingAfter(i) ==
    IF i < Len(panic_log) THEN panic_log[i + 1].pending
    ELSE DOMAIN open_panics

CombinedText(i, j) == data[i] \o <<" ">> \o MsgOf(data[j])

\* C4: a panic-start line of service S read while S has nothing pending is
\* resolved by the first later labeled line of S: that line emits exactly
\* one record, start line + " " + message (none only if the ignore set
\* matches), S's pending entry is cleared, and the labeled lines of S that
\* follow emit nothing until a new start line of S.
C4_PanicResolvedOnce ==
    /\ \A i \in FreshStarts :
          LET j == Resolver(i) IN
          (j # 0 /\ j <= pos) =>
             /\ panic_log[j].emitted # 0
                   => /\ panic_log[j].emitted <= Len(collected_panics)
                      /\ collected_panics[panic_log[j].emitted].match
                             = CombinedText(i, j)
             /\ panic_log[j].emitted = 0 => IGNORE_RE(CombinedText(i, j))
             /\ ServiceOf(data[i]) \notin PendingAfter(j)
             /\ \A l \in (j+1)..pos :
                   (/\ IsLabeled(l)
                    /\ ServiceOf(data[l]) = ServiceOf(data[i])
                    /\ \A m \in (j+1)..l : ~(IsStart(m) /\ ServiceOf(data[m])
                                               = ServiceOf(data[i])))
                   => panic_log[l].emitted = 0
    /\ \A l \in 1..pos :
          panic_log[l].emitted # 0
             => \E i \in FreshStarts : Resolver(i) = l
    /\ Len(collected_panics)
           = Cardinality({l \in 1..pos : panic_log[l].emitted # 0})

\* C4 witness: a start line, its resolving line (which emitted the combined
\* record) and a further labeled line of the same service have been read.
C4_Witness ==
    /\ pos >= 3
    /\ 1 \in FreshStarts
    /\ Resolver(1) = 2
    /\ panic_log[2].emitted = 1
    /\ collected_panics[1].match = CombinedText(1, 2)
    /\ IsLabeled(3)
    /\ ServiceOf(data[3]) = ServiceOf(data[1])
    /\ panic_log[3].emitted = 0
    /\ scan_pc = "returned"

\* The start lines read while their own service was pending
Interleaved ==
    {i \in 1..pos : IsStart(i) /\ ServiceOf(data[i]) \in panic_log[i].pending}

\* C5: a panic-start line of a service that is already pending halts the
\* scan with a diagnostic naming the service and the line, and nothing is
\* returned; a panic-start line of another service is no error and leaves
\* the pending services pending.
C5_InterleavedPanicsHalt ==
    /\ \A i \in Interleaved :
          /\ i = pos
          /\ scan_pc = "raised"
          /\ diagnostic = Some([text |-> "Two panics of same service",
                                service |-> ServiceOf(data[i]),
                                line |-> data[i]])
    /\ \A i \in FreshStarts :
          /\ i < pos \/ scan_pc \in {"scan", "returned"}
                \/ (scan_pc = "raised"
                       /\ diagnostic[1].text = "Panic log never finished")
          /\ PendingAfter(i)
                 = panic_log[i].pending \cup {ServiceOf(data[i])}
    /\ scan_pc = "returned" => Interleaved = {}

\* C5 witness: service T started a panic while S was pending, which was no
\* error, and then S started a second one, which halted the scan.
C5_Witness ==
    /\ pos = 3
    /\ IsStart(1) /\ IsStart(2) /\ IsStart(3)
    /\ ServiceOf(data[1]) # ServiceOf(data[2])
    /\ ServiceOf(data[3]) = ServiceOf(data[1])
    /\ panic_log[3].pending = {ServiceOf(data[1]), ServiceOf(data[2])}
    /\ scan_pc = "raised"
    /\ diagnostic[1].text = "Two panics of same service"

\* The services with a start line that no later labeled line resolves
Unresolved ==
    {ServiceOf(data[i]) : i \in {n \in DOMAIN data :
                                    IsStart(n) /\ Resolver(n) = 0}}

\* C6: at the end of the stream a pending panic-start aborts the scan with a
\* diagnostic naming the unresolved services; whenever the function returns,
\* the pending map is empty and every start line was resolved.
C6_UnterminatedPanicAborts ==
    /\ scan_pc = "returned"
          => /\ open_panics = EmptyDict
             /\ Unresolved = {}
             /\ pos = Len(data)
    /\ (scan_pc = "raised" /\ Interleaved = {})
          => /\ pos = Len(data)
             /\ Unresolved # {}
             /\ diagnostic[1].text = "Panic log never finished"
             /\ DOMAIN diagnostic[1].open_panics = Unresolved
    /\ (scan_pc = "scan" /\ pos = Len(data) /\ Unresolved # {})
          => DOMAIN open_panics = Unresolved

\* C6 witness: the stream ended with a panic pending and the scan aborted.
C6_Witness ==
    /\ scan_pc = "raised"
    /\ pos = Len(data)
    /\ Interleaved = {}
    /\ diagnostic[1].text = "Panic log never finished"
    /\ DOMAIN diagnostic[1].open_panics # {}

\* C7 as stated: a resolved panic is dropped exactly when the ignore set
\* matches start line + " " + message, and the pending entry is cleared
\* either way.
C7_Original_IgnoreOnCombinedText ==
    \A i \in FreshStarts :
        LET j == Resolver(i) IN
        (j # 0 /\ j <= pos) =>
           /\ panic_log[j].emitted = 0 <=> IGNORE_RE(CombinedText(i, j))
           /\ ServiceOf(data[i]) \notin PendingAfter(j)

====
